---- MODULE Spec2Model ----
(***************************************************************************)
(* fraud_alert_dashboard.py: a module-level script that loads five tables  *)
(* (local CSV first, external store second), adds a display-name column to *)
(* Customers, derives five summary views with pandas and builds one page.  *)
(* A table is a sequence of rows, a row is a record (column -> value).     *)
(***************************************************************************)
EXTENDS Integers, Sequences, FiniteSets, TLC

VARIABLES
    files,           \* names of the tables whose <table>.csv exists in DATA_DIR
    dsn,             \* POSTGRES_DSN
    csv,             \* table name -> rows of <table>.csv
    db,              \* table name -> rows the fallback query returns
    pc,              \* the module-level statement to run next
    globals,         \* the module-level names bound so far
    queried,         \* the tables whose fallback query was sent to the store
    error,           \* the message of the exception that ended the run, or ""
    customers, accounts, transactions, creditcards, sessions,
    txn_by_type, top_cardholders, multi_session, dormant, last_txn,
    page,            \* the figures handed to app.layout, in layout order
    call,            \* a direct call of load_or_query: its arguments and outcome
    loans,           \* the Loans table
    loan_totals      \* the loan portfolio totals and the repayment ratio

vars == <<files, dsn, csv, db, pc, globals, queried, error,
          customers, accounts, transactions, creditcards, sessions,
          txn_by_type, top_cardholders, multi_session, dormant, last_txn,
          page, call, loans, loan_totals>>

tables == <<customers, accounts, transactions, creditcards, sessions>>
views  == <<txn_by_type, top_cardholders, multi_session, dormant, last_txn>>
env    == <<files, dsn, csv, db>>
loan   == <<loans, loan_totals>>

(***************************************************************************)
(* Values                                                                  *)
(***************************************************************************)
\* pandas' NaN in a numeric column (an empty CSV cell, a SQL NULL).
NaN == -1
\* pandas' NaN in a text column.
NaNStr == ""
\* sql=None
None == "None"

TableNames == {"Customers", "Accounts", "Transactions", "CreditCards", "Sessions"}
ViewNames  == {"txn_by_type", "top_cardholders", "multi_session", "dormant", "last_txn"}

\* The fallback query each module-level call passes.
Sql == [t \in TableNames |->
          CASE t = "Customers"    -> "SELECT cust_id, first_name, last_name, salary_bracket FROM Customers"
            [] t = "Accounts"     -> "SELECT account_no, cust_id, balance FROM Accounts"
            [] t = "Transactions" -> "SELECT tid, t_type, amount, time::date AS day, source_acc_no, dest_acc_no FROM Transactions;"
            [] t = "CreditCards"  -> "SELECT cust_id, outstanding FROM CreditCards"
            [] t = "Sessions"     -> "SELECT cust_id, session_id FROM Sessions"]

(***************************************************************************)
(* Sequence helpers                                                        *)
(***************************************************************************)
Range(s) == {s[i] : i \in DOMAIN s}

RECURSIVE SumSeq(_)
SumSeq(s) == IF s = <<>> THEN 0 ELSE Head(s) + SumSeq(Tail(s))

RECURSIVE Concat(_)
Concat(ss) == IF ss = <<>> THEN <<>> ELSE Head(ss) \o Concat(Tail(ss))

Max(S) == CHOOSE x \in S : \A y \in S : y <= x
Min(S) == CHOOSE x \in S : \A y \in S : x <= y

\* The elements of a finite set of integers, ascending.
RECURSIVE SortedSeq(_)
SortedSeq(S) == IF S = {} THEN <<>> ELSE <<Min(S)>> \o SortedSeq(S \ {Min(S)})

\* Series.sum(): NaN cells are skipped.
ColSum(rows, col) ==
    SumSeq([i \in DOMAIN rows |-> IF rows[i][col] = NaN THEN 0 ELSE rows[i][col]])

(***************************************************************************)
(* load_or_query                                                           *)
(***************************************************************************)
MissingSourceMessage(table) == "Need " \o table \o ".csv or a live DSN"

\* The store is asked first, the file second.
load_or_query_StoreFirst(table, sql) ==
    IF dsn # "" /\ sql # None /\ sql # ""
    THEN [raised |-> FALSE, rows |-> db[table],  query |-> TRUE,  msg |-> ""]
    ELSE IF table \in files
    THEN [raised |-> FALSE, rows |-> csv[table], query |-> FALSE, msg |-> ""]
    ELSE [raised |-> TRUE,  rows |-> <<>>,       query |-> FALSE,
          msg |-> MissingSourceMessage(table)]

\* The outcome of load_or_query(table, sql) in the environment <<files, dsn, csv, db>>.
load_or_query(table, sql) ==
    IF table \in files
    THEN [raised |-> FALSE, rows |-> csv[table], query |-> FALSE, msg |-> ""]
    ELSE IF dsn # "" /\ sql # None /\ sql # ""
    THEN [raised |-> FALSE, rows |-> db[table],  query |-> TRUE,  msg |-> ""]
    ELSE [raised |-> TRUE,  rows |-> <<>>,       query |-> FALSE,
          msg |-> MissingSourceMessage(table)]

(***************************************************************************)
(* pandas operations, as far as the script uses them                       *)
(***************************************************************************)
\* df[cols]
Project(rows, cols) == [i \in DOMAIN rows |-> [c \in cols |-> rows[i][c]]]

\* df.rename(columns={old: new})
Rename(rows, old, new) ==
    [i \in DOMAIN rows |->
        [c \in (DOMAIN rows[i] \ {old}) \cup {new} |->
            IF c = new THEN rows[i][old] ELSE rows[i][c]]]

\* The rows of one group, in input order.
Group(rows, col, k) == SelectSeq(rows, LAMBDA r : r[col] = k)

\* groupby(col) on a numeric key: sort=True orders the groups by key ascending and
\* dropna=True leaves the rows with a NaN key out of every group.
GroupKeys(rows, col) == SortedSeq({rows[i][col] : i \in DOMAIN rows} \ {NaN})

\* left.merge(right): an inner join on the one shared column `on`; the result keeps
\* the order of the left keys, and a left row meets its matches in right order.
Merge(left, right, on) ==
    Concat([i \in DOMAIN left |->
        LET m == SelectSeq(right, LAMBDA r : r[on] = left[i][on])
        IN  [j \in DOMAIN m |-> left[i] @@ m[j]]])

\* left.merge(right, how="left"): an unmatched left row is kept once, with `fill`
\* (NaN) in the right-hand columns.
LeftMerge(left, right, on, fill) ==
    Concat([i \in DOMAIN left |->
        LET m == SelectSeq(right, LAMBDA r : r[on] = left[i][on])
        IN  IF m = <<>> THEN <<left[i] @@ fill>>
            ELSE [j \in DOMAIN m |-> left[i] @@ m[j]]])

\* left.merge(right, how="left", indicator=True)
LeftMergeIndicator(left, right, on, fill) ==
    Concat([i \in DOMAIN left |->
        LET m == SelectSeq(right, LAMBDA r : r[on] = left[i][on])
        IN  IF m = <<>> THEN <<left[i] @@ fill @@ ("_merge" :> "left_only")>>
            ELSE [j \in DOMAIN m |-> left[i] @@ m[j] @@ ("_merge" :> "both")]])

\* df[cols].melt(var_name=var, value_name=value): one block of rows per column,
\* in column order.
Melt(rows, cols, var, value) ==
    Concat([c \in DOMAIN cols |->
        [i \in DOMAIN rows |-> (var :> cols[c]) @@ (value :> rows[i][cols[c]])]])

RemoveAt(s, i) == SubSeq(s, 1, i - 1) \o SubSeq(s, i + 1, Len(s))

\* df.nlargest(n, col), keep="first": the n rows with the largest values, largest
\* first; among equal values the row that comes first in df is taken first.
RECURSIVE NLargest(_, _, _)
NLargest(n, rows, col) ==
    IF n = 0 \/ rows = <<>> THEN <<>>
    ELSE LET top == Max({rows[i][col] : i \in DOMAIN rows})
             i   == Min({j \in DOMAIN rows : rows[j][col] = top})
         IN  <<rows[i]>> \o NLargest(n - 1, RemoveAt(rows, i), col)

(***************************************************************************)
(* The aggregation stage                                                   *)
(***************************************************************************)
\* The display name without the last name.
WithFirstNameColumn(custs) ==
    [i \in DOMAIN custs |-> custs[i] @@ [customer |-> custs[i].first_name]]

\* customers["customer"] = customers["first_name"] + " " + customers["last_name"]
WithCustomerColumn(custs) ==
    [i \in DOMAIN custs |->
        custs[i] @@ [customer |-> custs[i].first_name \o " " \o custs[i].last_name]]

\* The transaction types, in the order groupby's sort puts text keys.
TxnTypeOrder == <<"deposit", "transfer", "withdrawal">>

\* groupby("t_type") on a text key: the keys present, sorted; rows whose t_type is
\* NaN belong to no group.
TypeKeys(txns) ==
    SelectSeq(TxnTypeOrder, LAMBDA k : \E i \in DOMAIN txns : txns[i].t_type = k)

\* The count of distinct amounts in place of the count of rows.
TxnByTypeNunique(txns) ==
    LET keys == TypeKeys(txns)
    IN  [g \in DOMAIN keys |->
            LET rows == Group(txns, "t_type", keys[g])
            IN  [t_type       |-> keys[g],
                 txn_count    |-> Cardinality({rows[i].amount : i \in DOMAIN rows}),
                 total_amount |-> ColSum(rows, "amount")]]

TxnByType(txns) ==
    LET keys == TypeKeys(txns)
    IN  [g \in DOMAIN keys |->
            LET rows == Group(txns, "t_type", keys[g])
            IN  [t_type       |-> keys[g],
                 txn_count    |-> Len(rows),
                 total_amount |-> ColSum(rows, "amount")]]

\* nlargest(5, ...)
TopN == 5

\* The customers of a table in the order of their first rows.
RECURSIVE FirstSeen(_, _)
FirstSeen(rows, col) ==
    IF rows = <<>> THEN <<>>
    ELSE <<Head(rows)[col]>>
         \o FirstSeen(SelectSeq(Tail(rows), LAMBDA r : r[col] # Head(rows)[col]), col)

\* groupby(..., sort=False): the groups in input order.
OutstandingByCustomerUnsorted(cards) ==
    LET keys == FirstSeen(cards, "cust_id")
    IN  [g \in DOMAIN keys |->
            [cust_id           |-> keys[g],
             total_outstanding |-> ColSum(Group(cards, "cust_id", keys[g]), "outstanding")]]

OutstandingByCustomer(cards) ==
    LET keys == GroupKeys(cards, "cust_id")
    IN  [g \in DOMAIN keys |->
            [cust_id           |-> keys[g],
             total_outstanding |-> ColSum(Group(cards, "cust_id", keys[g]), "outstanding")]]

\* head(5) in place of nlargest(5, ...).
TopCardholdersHead(cards, custs) ==
    LET m == Merge(OutstandingByCustomer(cards),
                   Project(custs, {"cust_id", "customer"}), "cust_id")
    IN  SubSeq(m, 1, IF Len(m) < TopN THEN Len(m) ELSE TopN)

TopCardholders(cards, custs) ==
    NLargest(TopN,
             Merge(OutstandingByCustomer(cards),
                   Project(custs, {"cust_id", "customer"}), "cust_id"),
             "total_outstanding")

SessionCounts(sess) ==
    LET keys == GroupKeys(sess, "cust_id")
    IN  [g \in DOMAIN keys |->
            [cust_id       |-> keys[g],
             session_count |-> Len(Group(sess, "cust_id", keys[g]))]]

\* session_count >= 1 in place of session_count > 1.
MultiSessionFromOne(sess, custs) ==
    Merge(SelectSeq(SessionCounts(sess), LAMBDA r : r.session_count >= 1),
          Project(custs, {"cust_id", "customer"}), "cust_id")

MultiSession(sess, custs) ==
    Merge(SelectSeq(SessionCounts(sess), LAMBDA r : r.session_count > 1),
          Project(custs, {"cust_id", "customer"}), "cust_id")

\* Only the source accounts count as transacting.
DormantSourceOnly(accts, txns) ==
    SelectSeq(
        LeftMergeIndicator(accts,
                           Melt(txns, <<"source_acc_no">>, "role", "account_no"),
                           "account_no", [role |-> NaNStr]),
        LAMBDA r : r["_merge"] = "left_only")

Dormant(accts, txns) ==
    SelectSeq(
        LeftMergeIndicator(accts,
                           Melt(txns, <<"source_acc_no", "dest_acc_no">>,
                                "role", "account_no"),
                           "account_no", [role |-> NaNStr]),
        LAMBDA r : r["_merge"] = "left_only")

\* Series.max(): NaN cells are skipped; NaN when nothing is left.
ColMax(rows, col) ==
    LET vals == {rows[i][col] : i \in DOMAIN rows} \ {NaN}
    IN  IF vals = {} THEN NaN ELSE Max(vals)

\* The join taken on the destination account.
LastTimeByCustomerDest(txns, accts) ==
    LET joined == LeftMerge(txns,
                            Rename(Project(accts, {"account_no", "cust_id"}),
                                   "account_no", "dest_acc_no"),
                            "dest_acc_no", [cust_id |-> NaN])
        keys   == GroupKeys(joined, "cust_id")
    IN  [g \in DOMAIN keys |->
            [cust_id   |-> keys[g],
             last_time |-> ColMax(Group(joined, "cust_id", keys[g]), "day")]]

LastTimeByCustomer(txns, accts) ==
    LET joined == LeftMerge(txns,
                            Rename(Project(accts, {"account_no", "cust_id"}),
                                   "account_no", "source_acc_no"),
                            "source_acc_no", [cust_id |-> NaN])
        keys   == GroupKeys(joined, "cust_id")
    IN  [g \in DOMAIN keys |->
            [cust_id   |-> keys[g],
             last_time |-> ColMax(Group(joined, "cust_id", keys[g]), "day")]]

LastTxn(txns, accts, custs) ==
    Merge(LastTimeByCustomer(txns, accts),
          Project(custs, {"cust_id", "customer"}), "cust_id")

\* The graphs of app.layout, in layout order.
Layout == <<"fig_txn_mix", "fig_top_cards", "fig_last_txn", "fig_sessions", "fig_dormant">>

(***************************************************************************)
(* The module-level statements, in order                                   *)
(***************************************************************************)
\* A loader that returns nothing instead of raising: the run goes on.
LoadStmtSilent(at, name, table, next, res) ==
    /\ pc = at
    /\ queried' = IF res.query THEN queried \cup {table} ELSE queried
    /\ pc' = next
    /\ globals' = globals \cup {name}
    /\ UNCHANGED error
    /\ UNCHANGED <<env, views, page, call, loan>>

\* One `name = load_or_query(table, sql)` statement: on success the name is bound and
\* the next statement follows; an exception ends the run with nothing bound.
LoadStmt(at, name, table, next, res) ==
    /\ pc = at
    /\ queried' = IF res.query THEN queried \cup {table} ELSE queried
    /\ IF res.raised
       THEN /\ pc' = "failed"
            /\ error' = res.msg
            /\ UNCHANGED globals
       ELSE /\ pc' = next
            /\ globals' = globals \cup {name}
            /\ UNCHANGED error
    /\ UNCHANGED <<env, views, page, call, loan>>

LoadCustomers ==
    LET res == load_or_query("Customers", Sql["Customers"])
    IN  /\ LoadStmt("load_customers", "customers", "Customers", "load_accounts", res)
        /\ customers' = IF res.raised THEN customers ELSE res.rows
        /\ UNCHANGED <<accounts, transactions, creditcards, sessions>>

LoadAccounts ==
    LET res == load_or_query("Accounts", Sql["Accounts"])
    IN  /\ LoadStmt("load_accounts", "accounts", "Accounts", "load_transactions", res)
        /\ accounts' = IF res.raised THEN accounts ELSE res.rows
        /\ UNCHANGED <<customers, transactions, creditcards, sessions>>

LoadTransactions ==
    LET res == load_or_query("Transactions", Sql["Transactions"])
    IN  /\ LoadStmt("load_transactions", "transactions", "Transactions", "load_creditcards", res)
        /\ transactions' = IF res.raised THEN transactions ELSE res.rows
        /\ UNCHANGED <<customers, accounts, creditcards, sessions>>

LoadCreditCards ==
    LET res == load_or_query("CreditCards", Sql["CreditCards"])
    IN  /\ LoadStmt("load_creditcards", "creditcards", "CreditCards", "load_sessions", res)
        /\ creditcards' = IF res.raised THEN creditcards ELSE res.rows
        /\ UNCHANGED <<customers, accounts, transactions, sessions>>

LoadSessions ==
    LET res == load_or_query("Sessions", Sql["Sessions"])
    IN  /\ LoadStmt("load_sessions", "sessions", "Sessions", "customer_column", res)
        /\ sessions' = IF res.raised THEN sessions ELSE res.rows
        /\ UNCHANGED <<customers, accounts, transactions, creditcards>>

AddCustomerColumn ==
    /\ pc = "customer_column"
    /\ customers' = WithCustomerColumn(customers)
    /\ pc' = "txn_by_type"
    /\ UNCHANGED <<env, globals, queried, error, accounts, transactions, creditcards,
                   sessions, views, page, call, loan>>

\* One `view = <derivation>` statement.
ViewStmt(at, name, next) ==
    /\ pc = at
    /\ pc' = next
    /\ globals' = globals \cup {name}
    /\ UNCHANGED <<env, queried, error, tables, page, call, loan>>

ComputeTxnByType ==
    /\ ViewStmt("txn_by_type", "txn_by_type", "top_cardholders")
    /\ txn_by_type' = TxnByType(transactions)
    /\ UNCHANGED <<top_cardholders, multi_session, dormant, last_txn>>

ComputeTopCardholders ==
    /\ ViewStmt("top_cardholders", "top_cardholders", "multi_session")
    /\ top_cardholders' = TopCardholders(creditcards, customers)
    /\ UNCHANGED <<txn_by_type, multi_session, dormant, last_txn>>

ComputeMultiSession ==
    /\ ViewStmt("multi_session", "multi_session", "dormant")
    /\ multi_session' = MultiSession(sessions, customers)
    /\ UNCHANGED <<txn_by_type, top_cardholders, dormant, last_txn>>

ComputeDormant ==
    /\ ViewStmt("dormant", "dormant", "last_txn")
    /\ dormant' = Dormant(accounts, transactions)
    /\ UNCHANGED <<txn_by_type, top_cardholders, multi_session, last_txn>>

ComputeLastTxn ==
    /\ ViewStmt("last_txn", "last_txn", "page")
    /\ last_txn' = LastTxn(transactions, accounts, customers)
    /\ UNCHANGED <<txn_by_type, top_cardholders, multi_session, dormant>>

\* The five figures and app.layout.
BuildPage ==
    /\ pc = "page"
    /\ page' = Layout
    /\ pc' = "done"
    /\ globals' = globals \cup Range(Layout) \cup {"app"}
    /\ UNCHANGED <<env, queried, error, tables, views, call, loan>>

Next ==
    \/ LoadCustomers
    \/ LoadAccounts
    \/ LoadTransactions
    \/ LoadCreditCards
    \/ LoadSessions
    \/ AddCustomerColumn
    \/ ComputeTxnByType
    \/ ComputeTopCardholders
    \/ ComputeMultiSession
    \/ ComputeDormant
    \/ ComputeLastTxn
    \/ BuildPage

(***************************************************************************)
(* Input data                                                              *)
(***************************************************************************)
\* All sequences over S of length at most n.
SeqsUpTo(S, n) == UNION {[1..k -> S] : k \in 0..n}

FirstNames == <<"Ann", "Bob", "Cy", "Dee", "Eve", "Fay", "Gus", "Hal", "Ida", "Jo">>

CustomerRow(id) ==
    [cust_id |-> id, first_name |-> FirstNames[id], last_name |-> "Lee",
     salary_bracket |-> 1]

\* The Customers table with the customers of a set, cust_id ascending.
CustomersOf(ids) ==
    LET s == SortedSeq(ids) IN [i \in DOMAIN s |-> CustomerRow(s[i])]

Txn(id, type, amt, d, src, dst) ==
    [tid |-> id, t_type |-> type, amount |-> amt, day |-> d,
     source_acc_no |-> src, dest_acc_no |-> dst]

\* Three deposits, two withdrawals, all on account 2; account 1 never transacts.
DefaultData ==
    [t \in TableNames |->
        CASE t = "Customers"    -> CustomersOf({1, 2})
          [] t = "Accounts"     -> <<[account_no |-> 1, cust_id |-> 1, balance |-> 100],
                                     [account_no |-> 2, cust_id |-> 2, balance |-> 0]>>
          [] t = "Transactions" -> <<Txn(1, "deposit", 10, 1, NaN, 2),
                                     Txn(2, "deposit", 20, 2, NaN, 2),
                                     Txn(3, "withdrawal", 5, 3, 2, NaN),
                                     Txn(4, "deposit", 30, 4, NaN, 2),
                                     Txn(5, "withdrawal", 15, 5, 2, NaN)>>
          [] t = "CreditCards"  -> <<[cust_id |-> 2, outstanding |-> 70],
                                     [cust_id |-> 1, outstanding |-> 50],
                                     [cust_id |-> 2, outstanding |-> 30]>>
          [] t = "Sessions"     -> <<[cust_id |-> 1, session_id |-> 1],
                                     [cust_id |-> 2, session_id |-> 2],
                                     [cust_id |-> 1, session_id |-> 3]>>]

\* A second, different content for every table.
OtherData ==
    [t \in TableNames |->
        CASE t = "Customers"    -> CustomersOf({3})
          [] t = "Accounts"     -> <<[account_no |-> 3, cust_id |-> 3, balance |-> 7]>>
          [] t = "Transactions" -> <<Txn(1, "transfer", 40, 1, 3, 4)>>
          [] t = "CreditCards"  -> <<[cust_id |-> 3, outstanding |-> 5]>>
          [] t = "Sessions"     -> <<>>]

DataSets == {DefaultData, OtherData}

\* A live DSN.
LiveDsn == "postgresql://bank"

NoCall == [state |-> "none", table |-> "", sql |-> None,
           rows |-> <<>>, msg |-> ""]

(***************************************************************************)
(* The run of the script: Spec                                             *)
(***************************************************************************)
\* The state before the first module-level statement, in a given environment.
Start ==
    /\ pc = "load_customers"
    /\ globals = {}
    /\ queried = {}
    /\ error = ""
    /\ customers = <<>> /\ accounts = <<>> /\ transactions = <<>>
    /\ creditcards = <<>> /\ sessions = <<>>
    /\ txn_by_type = <<>> /\ top_cardholders = <<>> /\ multi_session = <<>>
    /\ dormant = <<>> /\ last_txn = <<>>
    /\ page = <<>>
    /\ call = NoCall
    /\ loans = <<>>
    /\ loan_totals = <<>>

Init ==
    /\ files \in SUBSET TableNames
    /\ dsn \in {"", LiveDsn}
    /\ csv \in DataSets
    /\ db \in DataSets
    /\ Start

Spec == Init /\ [][Next]_vars

(***************************************************************************)
(* One call of load_or_query with any arguments: SpecLoader                *)
(***************************************************************************)
CallLoadOrQuery ==
    /\ call.state = "pending"
    /\ LET res == load_or_query(call.table, call.sql)
       IN  /\ call' = [call EXCEPT !.state = IF res.raised THEN "raised" ELSE "returned",
                                   !.rows = res.rows, !.msg = res.msg]
           /\ queried' = IF res.query THEN queried \cup {call.table} ELSE queried
    /\ UNCHANGED <<env, pc, globals, error, tables, views, page, loan>>

InitLoader ==
    /\ files \in SUBSET TableNames
    /\ dsn \in {"", LiveDsn}
    /\ csv = DefaultData
    /\ db = OtherData
    /\ pc = "call"
    /\ globals = {}
    /\ queried = {}
    /\ error = ""
    /\ customers = <<>> /\ accounts = <<>> /\ transactions = <<>>
    /\ creditcards = <<>> /\ sessions = <<>>
    /\ txn_by_type = <<>> /\ top_cardholders = <<>> /\ multi_session = <<>>
    /\ dormant = <<>> /\ last_txn = <<>>
    /\ page = <<>>
    /\ loans = <<>>
    /\ loan_totals = <<>>
    /\ \E t \in TableNames : \E q \in {None, "", Sql[t]} :
           call = [NoCall EXCEPT !.state = "pending", !.table = t, !.sql = q]

NextLoader == CallLoadOrQuery

SpecLoader == InitLoader /\ [][NextLoader]_vars

\* C1: load_or_query(table, sql) returns the rows of <table>.csv when the file exists,
\* without contacting the store; else the rows of the query when a DSN and a query are
\* given; else it raises the missing-data-source error naming the table and returns
\* nothing.
LoaderPriority ==
    call.state \in {"returned", "raised"} =>
        IF call.table \in files
        THEN /\ call.state = "returned"
             /\ call.rows = csv[call.table]
             /\ queried = {}
        ELSE IF dsn # "" /\ call.sql \notin {None, ""}
        THEN /\ call.state = "returned"
             /\ call.rows = db[call.table]
             /\ queried = {call.table}
        ELSE /\ call.state = "raised"
             /\ call.msg = "Need " \o call.table \o ".csv or a live DSN"
             /\ call.rows = <<>>
             /\ queried = {}

\* The file exists and a DSN and a query are given as well: the file wins.
LoaderFileWins ==
    /\ call.state = "returned"
    /\ call.table \in files
    /\ dsn # "" /\ call.sql \notin {None, ""}
    /\ call.rows # db[call.table]

(***************************************************************************)
(* Claims about the run                                                    *)
(***************************************************************************)
LoadedNames == {"customers", "accounts", "transactions", "creditcards", "sessions"}

AggregationPcs == {"customer_column", "txn_by_type", "top_cardholders",
                   "multi_session", "dormant", "last_txn", "page", "done"}

\* C2: a missing data source aborts the run before any aggregation: a view is computed
\* or a page built only after all five loads succeeded, and a failed run has computed
\* no view, built no page and takes no further step.
AbortBeforeAggregation ==
    /\ (globals \cap ViewNames # {} \/ page # <<>> \/ pc \in AggregationPcs)
           => /\ LoadedNames \subseteq globals
              /\ error = ""
              /\ \A t \in TableNames : t \in files \/ dsn # ""
    /\ pc = "failed" =>
           /\ \E t \in TableNames : error = MissingSourceMessage(t) /\ t \notin files
           /\ globals \cap ViewNames = {}
           /\ views = <<<<>>, <<>>, <<>>, <<>>, <<>>>>
           /\ page = <<>>
           /\ ~ENABLED Next

\* A run that failed at the last load, after four tables were loaded.
AbortedAtLastLoad ==
    /\ pc = "failed"
    /\ error = MissingSourceMessage("Sessions")
    /\ {"customers", "accounts", "transactions", "creditcards"} \subseteq globals

Loaded == [customers |-> customers, accounts |-> accounts,
           transactions |-> transactions, creditcards |-> creditcards,
           sessions |-> sessions]

Derived == [txn_by_type |-> txn_by_type, top_cardholders |-> top_cardholders,
            multi_session |-> multi_session, dormant |-> dormant,
            last_txn |-> last_txn]

\* C10 as stated: once a table is loaded, no step changes its rows or its columns.
NoTableMutatedAfterLoad ==
    [][\A n \in LoadedNames : n \in globals => Loaded'[n] = Loaded[n]]_vars

\* new is old with exactly one more column, customer = first_name + " " + last_name.
AddsDisplayName(old, new) ==
    /\ Len(new) = Len(old)
    /\ \A i \in DOMAIN old :
          /\ DOMAIN new[i] = DOMAIN old[i] \cup {"customer"}
          /\ "customer" \notin DOMAIN old[i]
          /\ \A c \in DOMAIN old[i] : new[i][c] = old[i][c]
          /\ new[i].customer = old[i].first_name \o " " \o old[i].last_name

\* C10 amended: once loaded, Accounts, Transactions, CreditCards and Sessions never
\* change; Customers changes in one step only, the statement between the loads and the
\* first view, which adds the column customer = first_name + " " + last_name and leaves
\* every row's other columns and the row order as loaded; a view derivation changes no
\* table and no view but its own.
OnlyCustomersGainsAColumn ==
    [][/\ \A n \in LoadedNames \ {"customers"} :
              n \in globals => Loaded'[n] = Loaded[n]
       /\ \A v \in ViewNames : pc # v => Derived'[v] = Derived[v]
       /\ "customers" \in globals =>
              IF pc = "customer_column"
              THEN AddsDisplayName(customers, customers')
              ELSE customers' = customers]_vars

\* The display name has been added to a non-empty Customers table.
CustomerColumnAdded ==
    /\ pc = "txn_by_type"
    /\ customers # <<>>
    /\ \A i \in DOMAIN customers : "customer" \in DOMAIN customers[i]

(***************************************************************************)
(* The run on the tables that decide one view                              *)
(***************************************************************************)
\* The script as shipped (POSTGRES_DSN = "") with every CSV file in place.
InitWith(data) ==
    /\ files = TableNames
    /\ dsn = ""
    /\ csv = data
    /\ db = OtherData
    /\ Start

(* Transaction mix *)
MaxMixTxn == 3
MixAmounts == {5, 10}

MixTables ==
    {[i \in DOMAIN s |-> Txn(i, s[i][1], s[i][2], 1, NaN, 2)] :
        s \in SeqsUpTo(Range(TxnTypeOrder) \X MixAmounts, MaxMixTxn)}

InitMix ==
    \E t \in MixTables \cup {DefaultData["Transactions"]} :
        InitWith([DefaultData EXCEPT !["Transactions"] = t])

SpecMix == InitMix /\ [][Next]_vars

NCardCust == 6
CardCusts == 1..NCardCust
CardAmounts == {10, 20}

Reverse(s) == [i \in DOMAIN s |-> s[Len(s) + 1 - i]]

\* One row per customer but `nocard`, cust_id ascending or descending, and at will a
\* second row for customer 1 at the end.
CardTable(amount, nocard, desc, second) ==
    LET asc  == SortedSeq(CardCusts \ {nocard})
        ids  == IF desc THEN Reverse(asc) ELSE asc
    IN  [i \in DOMAIN ids |-> [cust_id |-> ids[i], outstanding |-> amount[ids[i]]]]
        \o (IF second THEN <<[cust_id |-> 1, outstanding |-> 10]>> ELSE <<>>)

InitTop ==
    \E amount \in [CardCusts -> CardAmounts], nocard \in 0..NCardCust,
       absent \in 0..NCardCust, desc \in BOOLEAN, second \in BOOLEAN :
        InitWith([DefaultData EXCEPT
                    !["CreditCards"] = CardTable(amount, nocard, desc, second),
                    !["Customers"] = CustomersOf(CardCusts \ {absent})])

SpecTop == InitTop /\ [][Next]_vars

CustomerIds == {customers[i].cust_id : i \in DOMAIN customers}
CardIds == {creditcards[i].cust_id : i \in DOMAIN creditcards}
TopIds == {top_cardholders[i].cust_id : i \in DOMAIN top_cardholders}

\* The sum of a customer's outstanding values over all credit-card rows.
CustomerOutstanding(c) ==
    SumSeq([i \in DOMAIN creditcards |->
              IF creditcards[i].cust_id = c THEN creditcards[i].outstanding ELSE 0])

\* C4: top_cardholders has at most 5 rows, total_outstanding descending; every customer
\* in it has a credit-card row and its total is the sum of that customer's outstanding
\* values; no customer with a card and a Customers row that is left out has a strictly
\* larger sum than one that is in.
TopCardholdersInv ==
    "top_cardholders" \in globals =>
        /\ Len(top_cardholders) <= 5
        /\ \A i, j \in DOMAIN top_cardholders :
              i < j => top_cardholders[i].total_outstanding
                           >= top_cardholders[j].total_outstanding
        /\ \A i \in DOMAIN top_cardholders :
              /\ top_cardholders[i].cust_id \in CardIds
              /\ top_cardholders[i].total_outstanding
                     = CustomerOutstanding(top_cardholders[i].cust_id)
        /\ \A c \in (CardIds \cap CustomerIds) \ TopIds :
              \A i \in DOMAIN top_cardholders :
                  CustomerOutstanding(c) <= top_cardholders[i].total_outstanding

\* Six customers qualify, one with the smallest sum is left out, and a customer with
\* two card rows is in.
TopFiveOfSix ==
    /\ "top_cardholders" \in globals
    /\ Cardinality(CardIds \cap CustomerIds) = 6
    /\ Len(top_cardholders) = 5
    /\ top_cardholders[1].total_outstanding > top_cardholders[5].total_outstanding
    /\ \E i \in DOMAIN top_cardholders :
          /\ top_cardholders[i].cust_id = 1
          /\ top_cardholders[i].total_outstanding = 30

\* The customers left out of the view that are tied with a customer in it.
TiedOut ==
    {c \in (CardIds \cap CustomerIds) \ TopIds :
        \E i \in DOMAIN top_cardholders :
            top_cardholders[i].total_outstanding = CustomerOutstanding(c)}

\* The position of a customer's first row in the CreditCards input.
FirstCardRow(c) == Min({i \in DOMAIN creditcards : creditcards[i].cust_id = c})

\* C8 as stated: when tied customers do not all fit, the one whose credit-card rows come
\* earlier in the input is kept, and listed before a tied one that comes later.
TiesByInputOrder ==
    ("top_cardholders" \in globals /\ TiedOut # {}) =>
        /\ \A c \in TiedOut : \A i \in DOMAIN top_cardholders :
              top_cardholders[i].total_outstanding = CustomerOutstanding(c)
                  => FirstCardRow(top_cardholders[i].cust_id) < FirstCardRow(c)
        /\ \A i, j \in DOMAIN top_cardholders :
              (i < j /\ top_cardholders[i].total_outstanding
                            = top_cardholders[j].total_outstanding)
                  => FirstCardRow(top_cardholders[i].cust_id)
                         < FirstCardRow(top_cardholders[j].cust_id)

\* C8 amended: when tied customers do not all fit, the one with the smaller cust_id is
\* kept, and listed before a tied one with a larger cust_id, whatever the order of the
\* CreditCards input.
TiesByCustId ==
    ("top_cardholders" \in globals /\ TiedOut # {}) =>
        /\ \A c \in TiedOut : \A i \in DOMAIN top_cardholders :
              top_cardholders[i].total_outstanding = CustomerOutstanding(c)
                  => top_cardholders[i].cust_id < c
        /\ \A i, j \in DOMAIN top_cardholders :
              (i < j /\ top_cardholders[i].total_outstanding
                            = top_cardholders[j].total_outstanding)
                  => top_cardholders[i].cust_id < top_cardholders[j].cust_id

\* Tied customers do not all fit and the input lists the customers cust_id descending.
TieCutAgainstInputOrder ==
    /\ "top_cardholders" \in globals
    /\ TiedOut # {}
    /\ Len(creditcards) >= 6
    /\ creditcards[1].cust_id > creditcards[2].cust_id
    /\ \E c \in TiedOut : \E i \in DOMAIN top_cardholders :
          /\ top_cardholders[i].total_outstanding = CustomerOutstanding(c)
          /\ FirstCardRow(c) < FirstCardRow(top_cardholders[i].cust_id)

(* Multi-session customers *)
MaxSess == 5
SessCusts == 1..3

SessionTables ==
    {[i \in DOMAIN s |-> [cust_id |-> s[i], session_id |-> i]] :
        s \in SeqsUpTo(SessCusts, MaxSess)}

InitSessions ==
    \E t \in SessionTables, known \in SUBSET SessCusts :
        InitWith([DefaultData EXCEPT !["Sessions"] = t,
                                     !["Customers"] = CustomersOf(known)])

SpecSessions == InitSessions /\ [][Next]_vars

\* The number of session rows of a customer.
SessionsOf(c) == Cardinality({i \in DOMAIN sessions : sessions[i].cust_id = c})

\* C5: multi_session holds no customer with a session count <= 1: a customer is in it,
\* once, exactly when it has a Customers row and more than one session row, and
\* session_count is the number of its session rows.
MultiSessionInv ==
    "multi_session" \in globals =>
        /\ \A i \in DOMAIN multi_session :
              /\ multi_session[i].session_count > 1
              /\ multi_session[i].session_count = SessionsOf(multi_session[i].cust_id)
              /\ multi_session[i].cust_id \in CustomerIds
        /\ \A c \in CustomerIds :
              SessionsOf(c) > 1 <=>
                  \E i \in DOMAIN multi_session : multi_session[i].cust_id = c
        /\ \A i, j \in DOMAIN multi_session :
              multi_session[i].cust_id = multi_session[j].cust_id => i = j

\* One customer is in with two sessions, a customer with one session is out, and so is
\* one with two sessions and no Customers row.
MultiSessionCases ==
    /\ "multi_session" \in globals
    /\ multi_session # <<>>
    /\ \E c \in CustomerIds : SessionsOf(c) = 1
    /\ \E c \in SessCusts \ CustomerIds : SessionsOf(c) > 1

(* Dormant accounts *)
MaxDormTxn == 2
DormAccounts == {1, 2}
DormBalances == {0, 100}
\* The account numbers of transactions: the accounts and one that is in no table.
DormRefs == DormAccounts \cup {3}

\* Deposits (no source), withdrawals (no destination), transfers.
DormPairs ==
    {<<NaN, a>> : a \in DormRefs} \cup {<<a, NaN>> : a \in DormRefs}
        \cup {p \in DormRefs \X DormRefs : p[1] # p[2]}

DormTxnTables ==
    {[i \in DOMAIN s |-> Txn(i, "transfer", 10, 1, s[i][1], s[i][2])] :
        s \in SeqsUpTo(DormPairs, MaxDormTxn)}

DormAccountTables ==
    {[i \in 1..2 |-> [account_no |-> i, cust_id |-> i, balance |-> b[i]]] :
        b \in [DormAccounts -> DormBalances]}

InitDormant ==
    \E a \in DormAccountTables, t \in DormTxnTables :
        InitWith([DefaultData EXCEPT !["Accounts"] = a, !["Transactions"] = t])

SpecDormant == InitDormant /\ [][Next]_vars

\* The account numbers that are the source or the destination of a transaction.
Transacting ==
    {transactions[i].source_acc_no : i \in DOMAIN transactions}
        \cup {transactions[i].dest_acc_no : i \in DOMAIN transactions}

\* C6: dormant holds exactly the accounts that are neither source nor destination of any
\* transaction, each once with its own balance, whatever the balance; it shares no
\* account with the transactions.
DormantInv ==
    "dormant" \in globals =>
        /\ \A i \in DOMAIN dormant : dormant[i].account_no \notin Transacting
        /\ \A a \in DOMAIN accounts :
              accounts[a].account_no \notin Transacting =>
                  /\ Cardinality({i \in DOMAIN dormant :
                         dormant[i].account_no = accounts[a].account_no}) = 1
                  /\ \E i \in DOMAIN dormant :
                        /\ dormant[i].account_no = accounts[a].account_no
                        /\ dormant[i].balance = accounts[a].balance
        /\ Len(dormant) = Cardinality({a \in DOMAIN accounts :
                              accounts[a].account_no \notin Transacting})

\* Account 1 (balance 100) never transacts, account 2 (balance 0) is only ever a
\* destination: dormant is exactly account 1 with balance 100.
DormantExample ==
    /\ "dormant" \in globals
    /\ transactions # <<>>
    /\ \A i \in DOMAIN transactions :
          transactions[i].source_acc_no # 2 /\ transactions[i].dest_acc_no = 2
    /\ accounts[2].balance = 0
    /\ Len(dormant) = 1
    /\ dormant[1].account_no = 1 /\ dormant[1].balance = 100

(* Last transaction per customer *)
MaxLastTxn == 2
LastDays == {1, 2}
LastOwners == {1, 2, 3}

LastTxnTables ==
    {[i \in DOMAIN s |-> Txn(i, "transfer", 10, s[i][3], s[i][1], s[i][2])] :
        s \in SeqsUpTo({NaN, 1, 2, 3} \X {NaN, 1} \X LastDays, MaxLastTxn)}

\* Accounts 1 and 2, each owned by customer 1, 2 or 3; customer 3 has no Customers row.
LastAccountTables ==
    {[i \in 1..2 |-> [account_no |-> i, cust_id |-> o[i], balance |-> 10]] :
        o \in [{1, 2} -> LastOwners]}

InitLast ==
    \E a \in LastAccountTables, t \in LastTxnTables :
        InitWith([DefaultData EXCEPT !["Accounts"] = a, !["Transactions"] = t])

SpecLast == InitLast /\ [][Next]_vars

\* The days of the transactions whose source account belongs to a customer.
SourceDays(c) ==
    {transactions[i].day : i \in {j \in DOMAIN transactions :
        \E a \in DOMAIN accounts :
            /\ accounts[a].account_no = transactions[j].source_acc_no
            /\ accounts[a].cust_id = c}}

\* C9: last_txn has exactly one row per customer that has a Customers row and owns the
\* source account of some transaction, with last_time the latest day of the transactions
\* whose source account the customer owns; a transaction with an unknown source account,
\* and one that only reaches the customer's account as destination, adds to no row.
LastTxnInv ==
    "last_txn" \in globals =>
        /\ \A i \in DOMAIN last_txn :
              /\ last_txn[i].cust_id \in CustomerIds
              /\ SourceDays(last_txn[i].cust_id) # {}
              /\ last_txn[i].last_time = Max(SourceDays(last_txn[i].cust_id))
        /\ \A c \in CustomerIds :
              SourceDays(c) # {} =>
                  Cardinality({i \in DOMAIN last_txn : last_txn[i].cust_id = c}) = 1
        /\ Len(last_txn) = Cardinality({c \in CustomerIds : SourceDays(c) # {}})

\* Customer 2 has a row for two transactions of different days; customer 1 owns only a
\* destination account and has none; a third source account is unknown.
LastTxnCases ==
    /\ "last_txn" \in globals
    /\ Len(last_txn) = 1
    /\ last_txn[1].cust_id = 2 /\ last_txn[1].last_time = 2
    /\ Cardinality(SourceDays(2)) = 2
    /\ \E i \in DOMAIN transactions :
          /\ transactions[i].dest_acc_no = 1
          /\ \E a \in DOMAIN accounts :
                accounts[a].account_no = 1 /\ accounts[a].cust_id = 1
    /\ \A i \in DOMAIN transactions : transactions[i].source_acc_no # NaN

(***************************************************************************)
(* Loan portfolio totals: SpecLoans                                        *)
(***************************************************************************)
DegenerateAggregate == "degenerate-aggregate: total_principal is zero"

\* Sum of principal and sum of paid over all loans.
LoanTotals(rows) ==
    [total_principal |-> ColSum(rows, "principal"),
     total_paid      |-> ColSum(rows, "paid")]

\* The division without a guard: a zero denominator comes out as a value.
RepaymentRatioUnguarded(totals) ==
    [raised |-> FALSE, ratio |-> <<totals.total_paid, totals.total_principal>>]

\* total_paid / total_principal as the fraction <<numerator, denominator>>; a zero
\* total_principal is an error, not a value.
RepaymentRatio(totals) ==
    IF totals.total_principal = 0
    THEN [raised |-> TRUE,  ratio |-> <<>>]
    ELSE [raised |-> FALSE, ratio |-> <<totals.total_paid, totals.total_principal>>]

ComputeLoanTotals ==
    /\ pc = "loan_totals"
    /\ loan_totals' = LoanTotals(loans)
    /\ pc' = "repayment_ratio"
    /\ globals' = globals \cup {"loan_totals"}
    /\ UNCHANGED <<env, queried, error, tables, views, page, call, loans>>

ComputeRepaymentRatio ==
    /\ pc = "repayment_ratio"
    /\ LET res == RepaymentRatio(loan_totals)
       IN  IF res.raised
           THEN /\ pc' = "failed"
                /\ error' = DegenerateAggregate
                /\ UNCHANGED <<loan_totals, globals>>
           ELSE /\ pc' = "done"
                /\ loan_totals' = loan_totals @@ [repayment_ratio |-> res.ratio]
                /\ globals' = globals \cup {"repayment_ratio"}
                /\ UNCHANGED error
    /\ UNCHANGED <<env, queried, tables, views, page, call, loans>>

MaxLoans == 3
LoanPrincipals == {0, 1000}
LoanPaid == {0, 500}

InitLoans ==
    /\ files = TableNames
    /\ dsn = ""
    /\ csv = DefaultData
    /\ db = OtherData
    /\ pc = "loan_totals"
    /\ globals = {"loans"}
    /\ queried = {}
    /\ error = ""
    /\ customers = <<>> /\ accounts = <<>> /\ transactions = <<>>
    /\ creditcards = <<>> /\ sessions = <<>>
    /\ txn_by_type = <<>> /\ top_cardholders = <<>> /\ multi_session = <<>>
    /\ dormant = <<>> /\ last_txn = <<>>
    /\ page = <<>>
    /\ call = NoCall
    /\ loans \in {[i \in DOMAIN s |-> [principal |-> s[i][1], paid |-> s[i][2]]] :
                     s \in SeqsUpTo(LoanPrincipals \X LoanPaid, MaxLoans)}
    /\ loan_totals = <<>>

NextLoans == ComputeLoanTotals \/ ComputeRepaymentRatio

SpecLoans == InitLoans /\ [][NextLoans]_vars

\* C7: the totals are the sums of principal and of paid over all loans; with a positive
\* total_principal the repayment ratio is the value total_paid / total_principal, which
\* is >= 0; with a zero total_principal the computation ends in the defined error and
\* yields no ratio.
RepaymentRatioInv ==
    LET principal == SumSeq([i \in DOMAIN loans |-> loans[i].principal])
        paid      == SumSeq([i \in DOMAIN loans |-> loans[i].paid])
    IN  /\ "loan_totals" \in globals =>
              loan_totals.total_principal = principal /\ loan_totals.total_paid = paid
        /\ pc = "done" =>
              /\ principal > 0
              /\ loan_totals.repayment_ratio[2] # 0
              /\ loan_totals.repayment_ratio[1] * principal
                     = paid * loan_totals.repayment_ratio[2]
              /\ loan_totals.repayment_ratio[1] * loan_totals.repayment_ratio[2] >= 0
        /\ pc = "failed" =>
              /\ principal = 0
              /\ error = DegenerateAggregate
              /\ "repayment_ratio" \notin DOMAIN loan_totals

\* Loans that all have principal 0 and some paid amount: the defined error.
ZeroPrincipalFails ==
    /\ pc = "failed"
    /\ loans # <<>>
    /\ loan_totals.total_principal = 0 /\ loan_totals.total_paid > 0

====
